---- MODULE Spec2Model ----
(***************************************************************************)
(* Messaging subsystem of the college portal: the Message table, the       *)
(* contact list (messages_view), the conversation API (api_messages), the  *)
(* send API (api_send_message), MessageDetailView and the admin bulk       *)
(* actions mark_as_read / mark_as_unread.                                  *)
(*                                                                         *)
(* Every request handler is one atomic action.  The variable resp holds    *)
(* the response of the handler that ran last.  Text is a sequence of       *)
(* characters, a nullable timestamp is <<>> (NULL) or <<t>>.               *)
(***************************************************************************)
EXTENDS Integers, Sequences, FiniteSets

\* ---------------------------------------------------------------- bounds
NumUsers == 3
MaxMsgs == 2
MaxClock == 1
NumProcs == 2

\* ------------------------------------------------------------- directory
Users == 1..NumUsers
\* a well-formed id that names no row of the User table
UnknownId == NumUsers + 1
\* a request parameter that is absent or empty (None, '' or JSON 0/null)
Missing == 0
\* a parameter that is present and is no number ('abc')
NotANumber == NumUsers + 2
IdParams == Users \cup {UnknownId, Missing}
AnyIdParams == IdParams \cup {NotANumber}
\* request.user of a request without a session: AnonymousUser, whose id is None
Anonymous == Missing
Callers == Users \cup {Anonymous}

\* login_required passes the callers with is_authenticated
AlwaysAuthenticated(user) == TRUE
IsAuthenticated(user) == user # Anonymous

\* what the body of a send request is: a JSON object whose content is a string,
\* text that is no JSON, JSON that is no object, an object whose content is no
\* string
BodyShapes == {"object", "not_json", "not_object", "content_not_string"}
Malformed == BodyShapes \ {"object"}

\* User.Meta.ordering = ['-created_at']; accounts are provisioned in id order
UserOrder == [i \in 1..NumUsers |-> NumUsers + 1 - i]

\* ------------------------------------------------------------------ text
Whitespace == {" "}
\* request bodies the senders submit
Contents == { <<>>, <<" ">>, <<"a">>, <<" ", "b", " ">> }

RECURSIVE LStrip(_)
LStrip(s) == IF s = <<>> THEN s
             ELSE IF Head(s) \in Whitespace THEN LStrip(Tail(s)) ELSE s

RECURSIVE RStrip(_)
RStrip(s) == IF s = <<>> THEN s
             ELSE IF s[Len(s)] \in Whitespace
                  THEN RStrip(SubSeq(s, 1, Len(s) - 1)) ELSE s

\* str.strip() without the trailing pass
StripLeftOnly(s) == LStrip(s)
\* str.strip()
Strip(s) == RStrip(LStrip(s))

\* ------------------------------------------------------------ timestamps
NULL == <<>>
\* clock ticks per second: strftime('%Y-%m-%d %H:%M:%S') drops the fraction
TicksPerSecond == 2
Strftime(t) == t \div TicksPerSecond

VARIABLES
    messages,       \* the Message table: row i has id i
    clock,          \* timezone.now() as last read
    resp,           \* response of the last handler
    submitted,      \* history: submitted[i] is the accepted request that made row i
    repeat,         \* history: the last two handlers were the same api_messages(U, C)
    inflight,       \* the requests being handled, between two of their queries
    accounts,       \* the User table: role and flags of every account
    reports,        \* the Report table and the last id it has given out
    people,         \* the Parent, ParentStudentRelation and Employee tables
    feedback        \* the Feedback table: row i has pk i

\* the tables that the messaging handlers neither read nor write
site == <<accounts, reports, people, feedback>>
vars == <<messages, clock, resp, submitted, repeat, inflight, accounts, reports,
          people, feedback>>

\* the response to a request that login_required turns away
LoginRedirect == [kind |-> "redirect", status |-> 302, location |-> "login"]
\* a JSON error response, or the server error page of an uncaught exception
ErrorJson(status, op, error) ==
    [kind |-> "error", status |-> status, op |-> op, error |-> error]

Ids(store) == 1..Len(store)

\* ------------------------------------------------------ Message.objects
\* Message.objects.create(sender=, recipient=, content=) with model defaults
NewMessage(id, sender, recipient, content, now) ==
    [id |-> id, sender |-> sender, recipient |-> recipient, content |-> content,
     is_read |-> FALSE, read_at |-> NULL, created_at |-> now, updated_at |-> now]

\* the INSERT of Message.objects.create
InsertReplacesLast(store, m) ==
    IF store = <<>> THEN <<m>>
    ELSE [store EXCEPT ![Len(store)] = [m EXCEPT !.id = Len(store)]]
Insert(store, m) == Append(store, m)

\* values_list('sender_id') of filter(recipient=user)
SentToMe(store, user) == {store[i].sender : i \in {j \in Ids(store) : store[j].recipient = user}}
\* values_list('recipient_id') of filter(sender=user)
SentByMe(store, user) == {store[i].recipient : i \in {j \in Ids(store) : store[j].sender = user}}

ContactIdsNoSent(store, user) == SentToMe(store, user)
ContactIds(store, user) == SentToMe(store, user) \cup SentByMe(store, user)

\* filter(sender=contact, recipient=user, is_read=False)
UnreadFilterAnySender(m, contact, user) == m.recipient = user /\ ~m.is_read
UnreadFilter(m, contact, user) ==
    m.sender = contact /\ m.recipient = user /\ ~m.is_read

\* .count() of the unread filter
RECURSIVE UnreadCount(_, _, _)
UnreadCount(store, contact, user) ==
    IF store = <<>> THEN 0
    ELSE (IF UnreadFilter(Head(store), contact, user) THEN 1 ELSE 0)
         + UnreadCount(Tail(store), contact, user)

\* Q(sender=user, recipient=contact) | Q(sender=contact, recipient=user)
ThreadFilterIncoming(m, user, contact) == m.sender = contact /\ m.recipient = user
ThreadFilter(m, user, contact) ==
    \/ m.sender = user /\ m.recipient = contact
    \/ m.sender = contact /\ m.recipient = user

ThreadIds(store, user, contact) ==
    {i \in Ids(store) : ThreadFilter(store[i], user, contact)}

\* order_by('created_at'): every arrangement of the rows that is ascending in
\* created_at; rows with equal created_at come in whatever order the database
\* produces
OrderByCreatedAt(store, ids) ==
    {s \in [1..Cardinality(ids) -> ids] :
        /\ \A i, j \in 1..Cardinality(ids) : i # j => s[i] # s[j]
        /\ \A i, j \in 1..Cardinality(ids) :
              i < j => store[s[i]].created_at <= store[s[j]].created_at}

\* filter(sender=contact, recipient=user, is_read=False).update(is_read=True)
MarkReadKeepsUnread(store, user, contact) ==
    [i \in Ids(store) |->
        IF UnreadFilter(store[i], contact, user)
        THEN [store[i] EXCEPT !.is_read = FALSE] ELSE store[i]]
MarkRead(store, user, contact) ==
    [i \in Ids(store) |->
        IF UnreadFilter(store[i], contact, user)
        THEN [store[i] EXCEPT !.is_read = TRUE] ELSE store[i]]

\* one element of the 'messages' array of the JSON response
MessageJson(m) ==
    [id |-> m.id, sender_id |-> m.sender, content |-> m.content,
     created_at |-> Strftime(m.created_at), is_read |-> m.is_read]

\* one element of contacts_data
ContactJson(store, contact, user) ==
    [id |-> contact, unread_count |-> UnreadCount(store, contact, user)]

\* contacts_data: User.objects.filter(id__in=contact_ids) in User.Meta order
ContactsData(store, user) ==
    LET ids == ContactIds(store, user)
        InIds(u) == u \in ids
        rows == SelectSeq(UserOrder, InIds)
    IN  [k \in 1..Len(rows) |-> ContactJson(store, rows[k], user)]

\* the requests in flight: at most NumProcs at a time
Procs == 1..NumProcs
Idle == [pc |-> "idle"]

\* the account with the lowest id
FirstUser == CHOOSE u \in Users : \A v \in Users : u <= v

\* ------------------------------------------------------------- accounts
\* User.ROLE_CHOICES
ROLE_CHOICES == {"admin", "employee", "parent", "student"}

\* create_demo_users: admin1, staff1, parent1; any further account has the
\* model's default role
DemoUsers ==
    [u \in Users |->
        IF u = FirstUser
        THEN [role |-> "admin", is_active |-> TRUE, is_staff |-> TRUE, is_superuser |-> TRUE]
        ELSE [role |-> IF u = FirstUser + 1 THEN "employee"
                       ELSE IF u = FirstUser + 2 THEN "parent" ELSE "student",
              is_active |-> TRUE, is_staff |-> FALSE, is_superuser |-> FALSE]]

\* a session of the account: login and the session's user lookup both turn
\* an inactive account away
LoggedIn(user) == IsAuthenticated(user) /\ accounts[user].is_active

\* -------------------------------------------------------------- reports
MaxReports == 2
\* Report.STATUS_CHOICES
STATUS_CHOICES == {"draft", "published", "archived"}
\* the titles the forms are filled with
Titles == {"t1", "t2"}
\* the cleaned data of a valid ReportForm
ReportForms == [title : Titles, status : STATUS_CHOICES]
NoReports == [rows |-> <<>>, last_id |-> 0]
ReportIds == DOMAIN reports.rows

\* --------------------------------------------------- parents, employees
MaxPeople == 2
\* Parent.STATUS_CHOICES and Employee.STATUS_CHOICES
ParentStatuses == {"ACTIVE", "INACTIVE", "DECEASED"}
EmployeeStatuses == {"ACTIVE", "ON_LEAVE", "SUSPENDED", "DISMISSED"}
\* parents and employees map the pk of a row to its status; relations holds
\* the parent of every ParentStudentRelation row
NoPeople ==
    [parents |-> <<>>, last_parent |-> 0, relations |-> {},
     employees |-> <<>>, last_employee |-> 0]
ParentIds == DOMAIN people.parents
EmployeeIds == DOMAIN people.employees

\* ------------------------------------------------------------------ Init
Init ==
    /\ messages = <<>>
    /\ clock = 0
    /\ resp = [kind |-> "none"]
    /\ submitted = <<>>
    /\ repeat = FALSE
    /\ inflight = [p \in Procs |-> Idle]
    /\ accounts = DemoUsers
    /\ reports = NoReports
    /\ people = NoPeople
    /\ feedback = <<>>

\* timezone.now() read by a handler: the wall clock has not gone back
Now == {t \in clock..(clock + 1) : t <= MaxClock}

\* ------------------------------------------------------------- handlers
\* GET /messages/ by the authenticated user
MessagesView(user) ==
    /\ resp' = IF ~IsAuthenticated(user) THEN LoginRedirect
               ELSE [kind |-> "contacts", status |-> 200, user |-> user,
                     contacts |-> ContactsData(messages, user)]
    /\ repeat' = FALSE
    /\ UNCHANGED <<messages, clock, submitted, inflight>>
    /\ UNCHANGED site

\* GET /api/messages/?contact_id= by the authenticated user
ApiMessages(user, contact_id) ==
    /\ IF ~IsAuthenticated(user)
       THEN /\ resp' = LoginRedirect
            /\ repeat' = FALSE
            /\ UNCHANGED messages
       ELSE IF contact_id = Missing
       THEN /\ resp' = ErrorJson(400, "api_messages", "contact_id required")
            /\ repeat' = FALSE
            /\ UNCHANGED messages
       ELSE IF contact_id = NotANumber
       THEN \* User.objects.get(id='abc') raises ValueError, which nothing catches
            /\ resp' = ErrorJson(500, "api_messages", "ValueError")
            /\ repeat' = FALSE
            /\ UNCHANGED messages
       ELSE IF contact_id \notin Users
       THEN /\ resp' = ErrorJson(404, "api_messages", "contact not found")
            /\ repeat' = FALSE
            /\ UNCHANGED messages
       ELSE LET after == MarkRead(messages, user, contact_id)
            IN  /\ messages' = after
                /\ \E order \in OrderByCreatedAt(after, ThreadIds(after, user, contact_id)) :
                     resp' = [kind |-> "thread", status |-> 200, user |-> user,
                              contact |-> contact_id,
                              messages |-> [k \in 1..Len(order) |-> MessageJson(after[order[k]])]]
                /\ repeat' = (resp.kind = "thread" /\ resp.user = user
                              /\ resp.contact = contact_id)
    /\ UNCHANGED <<clock, submitted, inflight>>
    /\ UNCHANGED site

\* sender=request.user: the body's own sender_id is never read
SenderFromBody(user, sender_id) == IF sender_id # Missing THEN sender_id ELSE user
SenderOf(user, sender_id) == user

\* not recipient_id or not content
FieldsMissingContentUnchecked(recipient_id, content) == recipient_id = Missing
FieldsMissing(recipient_id, content) == recipient_id = Missing \/ content = <<>>

\* the status of the except clause that ends the try block early, 200 if none
\* does: JSONDecodeError from json.loads, AttributeError from data.get or
\* .strip(), ValueError from User.objects.get (all three under Exception),
\* User.DoesNotExist
SendStatus(shape, recipient_id, content) ==
    IF shape = "not_json" THEN 400
    ELSE IF shape \in {"not_object", "content_not_string"} THEN 500
    ELSE IF FieldsMissing(recipient_id, content) THEN 400
    ELSE IF recipient_id = NotANumber THEN 500
    ELSE IF recipient_id \notin Users THEN 404
    ELSE 200

\* the error field of that response; str(e) is written as the class of e
SendErrorText(shape, recipient_id, content) ==
    IF shape = "not_json" THEN "bad JSON"
    ELSE IF shape \in {"not_object", "content_not_string"} THEN "AttributeError"
    ELSE IF FieldsMissing(recipient_id, content) THEN "recipient_id and content required"
    ELSE IF recipient_id = NotANumber THEN "ValueError"
    ELSE "recipient not found"

\* the message of the success response
SentJson(m) ==
    [kind |-> "sent", status |-> 200, success |-> TRUE,
     message |-> [id |-> m.id, sender_id |-> m.sender, content |-> m.content,
                  created_at |-> Strftime(m.created_at)]]

\* POST /api/messages/send/ by the authenticated user; sender_id is a field of
\* the body the client may add
ApiSendMessage(user, shape, sender_id, recipient_id, body) ==
    LET content == Strip(body)
        status == SendStatus(shape, recipient_id, content)
    IN  /\ IF ~IsAuthenticated(user)
           THEN /\ resp' = LoginRedirect
                /\ UNCHANGED <<messages, clock, submitted>>
           ELSE IF status # 200
           THEN /\ resp' = ErrorJson(status, "api_send_message",
                                      SendErrorText(shape, recipient_id, content))
                /\ UNCHANGED <<messages, clock, submitted>>
           ELSE \E now \in Now :
                LET m == NewMessage(Len(messages) + 1, SenderOf(user, sender_id),
                                    recipient_id, content, now)
                IN  /\ Len(messages) < MaxMsgs
                    /\ messages' = Insert(messages, m)
                    /\ clock' = now
                    /\ submitted' = Append(submitted,
                          [sender |-> user, recipient |-> recipient_id,
                           content |-> body, sender_id |-> sender_id])
                    /\ resp' = SentJson(m)
        /\ repeat' = FALSE
        /\ UNCHANGED inflight
        /\ UNCHANGED site

\* message.recipient == request.user and not message.is_read
MarksOnAnyView(m, user) == ~m.is_read
MarksOnView(m, user) == m.recipient = user /\ ~m.is_read

\* GET of MessageDetailView for the row pk by the authenticated user
MessageDetailViewGet(user, pk) ==
    /\ pk \in Ids(messages)
    /\ IF ~IsAuthenticated(user)
       THEN UNCHANGED <<messages, clock>>
       ELSE IF MarksOnView(messages[pk], user)
       THEN \E now \in Now :
            /\ messages' = [messages EXCEPT ![pk].is_read = TRUE,
                                            ![pk].read_at = <<now>>,
                                            ![pk].updated_at = now]
            /\ clock' = now
       ELSE UNCHANGED <<messages, clock>>
    \* the template is rendered from self.object after get() has returned
    /\ resp' = IF ~IsAuthenticated(user) THEN LoginRedirect
               ELSE [kind |-> "detail", status |-> 200, user |-> user,
                     message |-> messages'[pk]]
    /\ repeat' = FALSE
    /\ UNCHANGED <<submitted, inflight>>
    /\ UNCHANGED site

\* GET or POST of MessageCreateView: get_form_kwargs adds user= to the
\* arguments of MessageForm, whose __init__ takes no such argument
MessageCreateView(user) ==
    /\ resp' = IF ~IsAuthenticated(user) THEN LoginRedirect
               ELSE ErrorJson(500, "message_create", "TypeError")
    /\ repeat' = FALSE
    /\ UNCHANGED <<messages, clock, submitted, inflight>>
    /\ UNCHANGED site

\* MessageAdmin bulk action on the selected rows
MarkAsRead(queryset) ==
    /\ messages' = [i \in Ids(messages) |->
                      IF i \in queryset THEN [messages[i] EXCEPT !.is_read = TRUE]
                      ELSE messages[i]]
    /\ resp' = [kind |-> "admin", status |-> 200, updated |-> Cardinality(queryset)]
    /\ repeat' = FALSE
    /\ UNCHANGED <<clock, submitted, inflight>>
    /\ UNCHANGED site

MarkAsUnread(queryset) ==
    /\ messages' = [i \in Ids(messages) |->
                      IF i \in queryset THEN [messages[i] EXCEPT !.is_read = FALSE]
                      ELSE messages[i]]
    /\ resp' = [kind |-> "admin", status |-> 200, updated |-> Cardinality(queryset)]
    /\ repeat' = FALSE
    /\ UNCHANGED <<clock, submitted, inflight>>
    /\ UNCHANGED site

DoMessagesView == \E u \in Users : MessagesView(u)
DoApiMessages == \E u \in Users, c \in IdParams : ApiMessages(u, c)
DoApiSendMessage ==
    \E u \in Users, r \in IdParams, b \in Contents :
        ApiSendMessage(u, "object", Missing, r, b)
DoMessageDetailViewGet ==
    \E u \in Users, pk \in Ids(messages) : MessageDetailViewGet(u, pk)
DoMarkAsRead == \E q \in (SUBSET Ids(messages)) \ {{}} : MarkAsRead(q)
DoMarkAsUnread == \E q \in (SUBSET Ids(messages)) \ {{}} : MarkAsUnread(q)

\* the core operations: Send, Conversation Retrieval, Contact Derivation
Next ==
    \/ DoMessagesView
    \/ DoApiMessages
    \/ DoApiSendMessage

Spec == Init /\ [][Next]_vars

\* the core operations together with MessageDetailView and the admin actions;
\* here the senders write one text, blank or not
PlainContents == { <<" ">>, <<"a">> }
DoApiSendPlain ==
    \E u \in Users, r \in IdParams, b \in PlainContents :
        ApiSendMessage(u, "object", Missing, r, b)

NextAll ==
    \/ DoMessagesView
    \/ DoApiMessages
    \/ DoApiSendPlain
    \/ DoMessageDetailViewGet
    \/ DoMarkAsRead
    \/ DoMarkAsUnread

SpecAll == Init /\ [][NextAll]_vars

\* the core operations as any client may call them: without a session, with a
\* parameter that is no number, with a body of any shape
DoMessagesViewAny == \E u \in Callers : MessagesView(u)
DoApiMessagesAny == \E u \in Callers, c \in AnyIdParams : ApiMessages(u, c)
WideContents == PlainContents \cup { <<>> }
DoApiSendAny ==
    \/ \E u \in Callers, r \in AnyIdParams, b \in WideContents :
           ApiSendMessage(u, "object", Missing, r, b)
    \/ \E u \in Users, shape \in Malformed, r \in Users :
           ApiSendMessage(u, shape, Missing, r, <<"a">>)

NextWide ==
    \/ DoMessagesViewAny
    \/ DoApiMessagesAny
    \/ DoApiSendAny

SpecWide == Init /\ [][NextWide]_vars

\* the two ways to create a message, with bodies that name a sender of their own
SenderIds == Users \cup {Missing}
DoApiSendForged ==
    \E u \in Users, sid \in SenderIds, r \in Users, b \in PlainContents :
        ApiSendMessage(u, "object", sid, r, b)
DoMessageCreateView == \E u \in Callers : MessageCreateView(u)

NextSend ==
    \/ DoApiSendForged
    \/ DoMessageCreateView

SpecSend == Init /\ [][NextSend]_vars

\* ------------------------------------------------- college_portal.views
\* The handlers that the root urls.py serves.  They repeat the queries of
\* the core handlers and differ in what they read and answer: form fields
\* in place of a JSON body, other fields in the JSON of a message, status
\* 200 with success=false for a send that is refused.

\* the accounts: the first has no first and last name, the others carry the
\* same ones
Username(u) == <<"user", u>>
FullName(u) == IF u = FirstUser THEN <<>> ELSE <<"Ivan", "Ivanov">>
\* get_full_name() or username
DisplayName(u) == IF FullName(u) # <<>> THEN FullName(u) ELSE Username(u)

\* strftime('%d.%m.%Y %H:%M'): to the minute
SecondsPerMinute == 60
StrftimeMinute(t) == t \div (TicksPerSecond * SecondsPerMinute)

\* msg.sender == user
IsIncoming(m, user) == m.recipient = user
IsOutgoing(m, user) == m.sender = user

\* one element of messages_data
PortalMessageJson(m, user) ==
    [id |-> m.id, sender |-> DisplayName(m.sender), content |-> m.content,
     time |-> StrftimeMinute(m.created_at), is_outgoing |-> IsOutgoing(m, user)]

\* GET /api/messages/?contact_id= as college_portal serves it
ApiMessagesPortal(user, contact_id) ==
    /\ IF ~IsAuthenticated(user)
       THEN /\ resp' = LoginRedirect
            /\ UNCHANGED messages
       ELSE IF contact_id = Missing
       THEN /\ resp' = ErrorJson(400, "api_messages", "contact_id required")
            /\ UNCHANGED messages
       ELSE IF contact_id = NotANumber
       THEN /\ resp' = ErrorJson(500, "api_messages", "ValueError")
            /\ UNCHANGED messages
       ELSE IF contact_id \notin Users
       THEN /\ resp' = ErrorJson(404, "api_messages", "contact not found")
            /\ UNCHANGED messages
       ELSE LET after == MarkRead(messages, user, contact_id)
            IN  /\ messages' = after
                /\ \E order \in OrderByCreatedAt(after, ThreadIds(after, user, contact_id)) :
                     resp' = [kind |-> "portal_thread", status |-> 200, user |-> user,
                              contact |-> contact_id,
                              contact_name |-> DisplayName(contact_id),
                              messages |-> [k \in 1..Len(order) |->
                                              PortalMessageJson(after[order[k]], user)]]
    /\ repeat' = FALSE
    /\ UNCHANGED <<clock, submitted, inflight>>
    /\ UNCHANGED site

\* the JSON of a send, status 200 whether it succeeded or not
SendResult(success, message_id) ==
    [kind |-> "send_result", status |-> 200, success |-> success,
     message_id |-> message_id]

\* POST /api/messages/send/ as college_portal serves it; recipient_id and
\* content are form fields
ApiSendMessagePortal(user, recipient_id, body) ==
    LET content == Strip(body)
    IN  /\ IF ~IsAuthenticated(user)
           THEN /\ resp' = LoginRedirect
                /\ UNCHANGED <<messages, clock, submitted>>
           ELSE IF FieldsMissing(recipient_id, content)
           THEN /\ resp' = SendResult(FALSE, Missing)
                /\ UNCHANGED <<messages, clock, submitted>>
           ELSE IF recipient_id = NotANumber
           THEN \* ValueError outside the try block that catches Exception
                /\ resp' = ErrorJson(500, "api_send_message", "ValueError")
                /\ UNCHANGED <<messages, clock, submitted>>
           ELSE IF recipient_id \notin Users
           THEN /\ resp' = SendResult(FALSE, Missing)
                /\ UNCHANGED <<messages, clock, submitted>>
           ELSE \E now \in Now :
                LET m == NewMessage(Len(messages) + 1, user, recipient_id, content, now)
                IN  /\ Len(messages) < MaxMsgs
                    /\ messages' = Insert(messages, m)
                    /\ clock' = now
                    /\ submitted' = Append(submitted,
                          [sender |-> user, recipient |-> recipient_id,
                           content |-> body, sender_id |-> Missing])
                    /\ resp' = SendResult(TRUE, m.id)
        /\ repeat' = FALSE
        /\ UNCHANGED inflight
        /\ UNCHANGED site

DoApiMessagesPortal == \E u \in Callers, c \in AnyIdParams : ApiMessagesPortal(u, c)
DoApiSendMessagePortal ==
    \E u \in Callers, r \in AnyIdParams, b \in PlainContents :
        ApiSendMessagePortal(u, r, b)

NextPortal ==
    \/ DoMessagesViewAny
    \/ DoApiMessagesPortal
    \/ DoApiSendMessagePortal

SpecPortal == Init /\ [][NextPortal]_vars

\* ------------------------------------------- requests that run together
\* Two requests served at the same time (two worker threads or processes)
\* interleave between their database statements.  A send takes its
\* created_at from timezone.now() when Message.objects.create builds the row
\* (auto_now_add, pre_save) and the INSERT, which assigns the id, follows; a
\* retrieval runs the UPDATE and then the SELECT of the lazy queryset.
Inserting == {p \in Procs : inflight[p].pc = "insert"}

\* api_send_message up to the point where the row is built
ApiSendMessageBegin(p, user, shape, sender_id, recipient_id, body) ==
    LET content == Strip(body)
        status == SendStatus(shape, recipient_id, content)
    IN  /\ inflight[p] = Idle
        /\ IF ~IsAuthenticated(user)
           THEN /\ resp' = LoginRedirect
                /\ UNCHANGED <<clock, inflight>>
           ELSE IF status # 200
           THEN /\ resp' = ErrorJson(status, "api_send_message",
                                      SendErrorText(shape, recipient_id, content))
                /\ UNCHANGED <<clock, inflight>>
           ELSE \E now \in Now :
                /\ Len(messages) + Cardinality(Inserting) < MaxMsgs
                /\ clock' = now
                /\ inflight' = [inflight EXCEPT ![p] =
                      [pc |-> "insert", user |-> user, sender_id |-> sender_id,
                       recipient |-> recipient_id, body |-> body, now |-> now]]
                /\ UNCHANGED resp
        /\ repeat' = FALSE
        /\ UNCHANGED <<messages, submitted>>
        /\ UNCHANGED site

\* the INSERT of that row and the success response
ApiSendMessageInsert(p) ==
    /\ inflight[p].pc = "insert"
    /\ LET r == inflight[p]
           m == NewMessage(Len(messages) + 1, SenderOf(r.user, r.sender_id),
                           r.recipient, Strip(r.body), r.now)
       IN  /\ messages' = Insert(messages, m)
           /\ submitted' = Append(submitted,
                 [sender |-> r.user, recipient |-> r.recipient,
                  content |-> r.body, sender_id |-> r.sender_id])
           /\ resp' = SentJson(m)
    /\ inflight' = [inflight EXCEPT ![p] = Idle]
    /\ repeat' = FALSE
    /\ UNCHANGED clock
    /\ UNCHANGED site

\* api_messages up to and with update(is_read=True)
ApiMessagesUpdate(p, user, contact_id) ==
    /\ inflight[p] = Idle
    /\ IF ~IsAuthenticated(user)
       THEN /\ resp' = LoginRedirect
            /\ UNCHANGED <<messages, inflight>>
       ELSE IF contact_id = Missing
       THEN /\ resp' = ErrorJson(400, "api_messages", "contact_id required")
            /\ UNCHANGED <<messages, inflight>>
       ELSE IF contact_id = NotANumber
       THEN /\ resp' = ErrorJson(500, "api_messages", "ValueError")
            /\ UNCHANGED <<messages, inflight>>
       ELSE IF contact_id \notin Users
       THEN /\ resp' = ErrorJson(404, "api_messages", "contact not found")
            /\ UNCHANGED <<messages, inflight>>
       ELSE /\ messages' = MarkRead(messages, user, contact_id)
            /\ inflight' = [inflight EXCEPT ![p] =
                  [pc |-> "select", user |-> user, contact |-> contact_id]]
            /\ UNCHANGED resp
    /\ repeat' = FALSE
    /\ UNCHANGED <<clock, submitted>>
    /\ UNCHANGED site

\* the SELECT that the list comprehension over the queryset runs, and the
\* response
ApiMessagesSelect(p) ==
    /\ inflight[p].pc = "select"
    /\ LET user == inflight[p].user
           contact == inflight[p].contact
       IN  \E order \in OrderByCreatedAt(messages, ThreadIds(messages, user, contact)) :
              resp' = [kind |-> "thread", status |-> 200, user |-> user,
                       contact |-> contact,
                       messages |-> [k \in 1..Len(order) |-> MessageJson(messages[order[k]])]]
    /\ inflight' = [inflight EXCEPT ![p] = Idle]
    /\ repeat' = FALSE
    /\ UNCHANGED <<messages, clock, submitted>>
    /\ UNCHANGED site

\* who writes to whom, and who reads whose thread, while requests overlap:
\* two parents write to the teacher, the teacher answers one of them and
\* opens either thread; some requests are ones the handlers reject
ConcSends ==
    {<<u, FirstUser>> : u \in Callers \ {FirstUser}}
        \cup {<<FirstUser, r>> : r \in {FirstUser + 1, UnknownId, NotANumber, Missing}}
ConcReads ==
    {<<FirstUser, c>> : c \in AnyIdParams \ {FirstUser}} \cup {<<Anonymous, FirstUser>>}

DoApiSendMessageBegin ==
    \/ \E p \in Procs, sr \in ConcSends :
           ApiSendMessageBegin(p, sr[1], "object", Missing, sr[2], <<"a">>)
    \/ \E p \in Procs, shape \in Malformed :
           ApiSendMessageBegin(p, FirstUser, shape, Missing, FirstUser + 1, <<"a">>)
DoApiSendMessageInsert == \E p \in Procs : ApiSendMessageInsert(p)
DoApiMessagesUpdate ==
    \E p \in Procs, uc \in ConcReads : ApiMessagesUpdate(p, uc[1], uc[2])
DoApiMessagesSelect == \E p \in Procs : ApiMessagesSelect(p)

NextConc ==
    \/ DoApiSendMessageBegin
    \/ DoApiSendMessageInsert
    \/ DoApiMessagesUpdate
    \/ DoApiMessagesSelect

SpecConc == Init /\ [][NextConc]_vars

\* messages sent and then opened one by one, by any caller
DoMessageDetailViewAny ==
    \E u \in Callers, pk \in Ids(messages) : MessageDetailViewGet(u, pk)

NextDetail ==
    \/ DoApiSendPlain
    \/ DoMessageDetailViewAny

SpecDetail == Init /\ [][NextDetail]_vars

\* -------------------------------------------------- communications.views
\* the 404 of get_object() for a pk that is in no row
NotFound(op) == ErrorJson(404, op, "Http404")
\* the redirect to success_url after a form was saved or a row deleted
Done(op, user, location) ==
    [kind |-> "done", status |-> 302, op |-> op, user |-> user, location |-> location]

\* POST of ReportCreateView: form_valid sets the author
ReportCreateView(user, form) ==
    /\ IF ~LoggedIn(user)
       THEN /\ resp' = LoginRedirect
            /\ UNCHANGED reports
       ELSE LET id == reports.last_id + 1
                row == [id |-> id, employee |-> user, title |-> form.title,
                        status |-> form.status]
            IN  /\ reports.last_id < MaxReports
                /\ reports' = [rows |-> [i \in ReportIds \cup {id} |->
                                           IF i = id THEN row ELSE reports.rows[i]],
                               last_id |-> id]
                /\ resp' = Done("report_create", user, "report-list")
    /\ repeat' = FALSE
    /\ UNCHANGED <<messages, clock, submitted, inflight, accounts, people, feedback>>

\* POST of ReportUpdateView: LoginRequiredMixin is the only test of the caller
ReportUpdateView(user, pk, form) ==
    /\ IF ~LoggedIn(user)
       THEN /\ resp' = LoginRedirect
            /\ UNCHANGED reports
       ELSE IF pk \notin ReportIds
       THEN /\ resp' = NotFound("report_update")
            /\ UNCHANGED reports
       ELSE /\ reports' = [reports EXCEPT !.rows[pk].title = form.title,
                                          !.rows[pk].status = form.status]
            /\ resp' = Done("report_update", user, "report-list")
    /\ repeat' = FALSE
    /\ UNCHANGED <<messages, clock, submitted, inflight, accounts, people, feedback>>

\* POST of ReportDeleteView
ReportDeleteView(user, pk) ==
    /\ IF ~LoggedIn(user)
       THEN /\ resp' = LoginRedirect
            /\ UNCHANGED reports
       ELSE IF pk \notin ReportIds
       THEN /\ resp' = NotFound("report_delete")
            /\ UNCHANGED reports
       ELSE /\ reports' = [reports EXCEPT !.rows =
                              [i \in ReportIds \ {pk} |-> reports.rows[i]]]
            /\ resp' = Done("report_delete", user, "report-list")
    /\ repeat' = FALSE
    /\ UNCHANGED <<messages, clock, submitted, inflight, accounts, people, feedback>>

ReportPks == 1..(MaxReports + 1)
DoReportCreateView == \E u \in Callers, f \in ReportForms : ReportCreateView(u, f)
DoReportUpdateView ==
    \E u \in Callers, pk \in ReportPks, f \in ReportForms : ReportUpdateView(u, pk, f)
DoReportDeleteView == \E u \in Callers, pk \in ReportPks : ReportDeleteView(u, pk)

NextReports ==
    \/ DoReportCreateView
    \/ DoReportUpdateView
    \/ DoReportDeleteView

SpecReports == Init /\ [][NextReports]_vars

\* the cleaned data of a valid UserEditForm, as far as the model keeps it
UserForms == [role : ROLE_CHOICES, is_active : BOOLEAN]

\* POST of UserUpdateView: LoginRequiredMixin is the only test of the caller
UserUpdateView(user, pk, form) ==
    /\ IF ~LoggedIn(user)
       THEN /\ resp' = LoginRedirect
            /\ UNCHANGED accounts
       ELSE IF pk \notin Users
       THEN /\ resp' = NotFound("user_update")
            /\ UNCHANGED accounts
       ELSE /\ accounts' = [accounts EXCEPT ![pk].role = form.role,
                                            ![pk].is_active = form.is_active]
            /\ resp' = Done("user_update", user, "user-list")
    /\ repeat' = FALSE
    /\ UNCHANGED <<messages, clock, submitted, inflight, reports, people, feedback>>

\* ------------------------------------------------------------ dashboard
\* the rows of a queryset, newest first
RecentFirst(store, ids) ==
    {s \in [1..Cardinality(ids) -> ids] :
        /\ \A i, j \in 1..Cardinality(ids) : i # j => s[i] # s[j]
        /\ \A i, j \in 1..Cardinality(ids) :
              i < j => store[s[i]].created_at >= store[s[j]].created_at}

\* the branch that the role takes: the template and the rows of
\* recent_messages, if the branch has them
DashboardTemplate(role) ==
    IF role = "administrator" THEN "dashboard/admin.html"
    ELSE IF role = "staff" THEN "dashboard/staff.html"
    ELSE "dashboard/parent.html"
DashboardRecent(store, role, user) ==
    IF role = "staff"
    THEN {i \in Ids(store) : store[i].sender = user \/ store[i].recipient = user}
    ELSE IF role = "parent"
    THEN {i \in Ids(store) : store[i].recipient = user}
    ELSE {}

\* GET /dashboard/
Dashboard(user) ==
    /\ IF ~LoggedIn(user)
       THEN resp' = LoginRedirect
       ELSE LET role == accounts[user].role
            IN  \E order \in RecentFirst(messages, DashboardRecent(messages, role, user)) :
                  resp' = [kind |-> "dashboard", status |-> 200, user |-> user,
                           role |-> role, template |-> DashboardTemplate(role),
                           statistics |-> (role = "administrator"),
                           recent_messages |->
                               [k \in 1..Len(order) |->
                                   [id |-> messages[order[k]].id,
                                    content |-> messages[order[k]].content]]]
    /\ repeat' = FALSE
    /\ UNCHANGED <<messages, clock, submitted, inflight, accounts, reports, people, feedback>>

UserPks == Users \cup {UnknownId}
DoUserUpdateView ==
    \E u \in Callers, pk \in UserPks, f \in UserForms : UserUpdateView(u, pk, f)
DoDashboard == \E u \in Callers : Dashboard(u)

NextUsers ==
    \/ DoUserUpdateView
    \/ DoDashboard

SpecUsers == Init /\ [][NextUsers]_vars

\* ------------------------------------------------------ MessageListView
FilterTypes == {"all", "unread", "read"}
\* get_queryset: filter(recipient=request.user), then the filter_type
ListFilter(m, user, filter_type) ==
    /\ m.recipient = user
    /\ filter_type = "unread" => ~m.is_read
    /\ filter_type = "read" => m.is_read

\* GET of MessageListView without a search text
MessageListView(user, filter_type) ==
    /\ IF ~LoggedIn(user)
       THEN resp' = LoginRedirect
       ELSE \E order \in RecentFirst(messages,
                   {i \in Ids(messages) : ListFilter(messages[i], user, filter_type)}) :
              resp' = [kind |-> "list", status |-> 200, user |-> user,
                       filter_type |-> filter_type,
                       unread_count |->
                           Cardinality({i \in Ids(messages) :
                               messages[i].recipient = user /\ ~messages[i].is_read}),
                       messages |-> [k \in 1..Len(order) |->
                                       [id |-> messages[order[k]].id,
                                        content |-> messages[order[k]].content,
                                        is_read |-> messages[order[k]].is_read]]]
    /\ repeat' = FALSE
    /\ UNCHANGED <<messages, clock, submitted, inflight>>
    /\ UNCHANGED site

DoMessageListView == \E u \in Callers, ft \in FilterTypes : MessageListView(u, ft)

\* every view that shows messages, with the sends that fill the table
NextRead ==
    \/ DoApiSendPlain
    \/ DoApiMessages
    \/ DoMessageListView
    \/ DoMessageDetailViewAny
    \/ DoDashboard

SpecRead == Init /\ [][NextRead]_vars

\* ------------------------------------------ parents.views, employees.views
\* the table with the row id added or replaced, without the row id
WithRow(table, id, row) ==
    [i \in (DOMAIN table) \cup {id} |-> IF i = id THEN row ELSE table[i]]
WithoutRow(table, id) == [i \in (DOMAIN table) \ {id} |-> table[i]]

\* POST of ParentCreateView
ParentCreateView(user, status) ==
    /\ IF ~LoggedIn(user)
       THEN /\ resp' = LoginRedirect
            /\ UNCHANGED people
       ELSE /\ people.last_parent < MaxPeople
            /\ people' = [people EXCEPT
                  !.parents = WithRow(people.parents, people.last_parent + 1, status),
                  !.last_parent = people.last_parent + 1]
            /\ resp' = Done("parent_create", user, "parent-list")
    /\ repeat' = FALSE
    /\ UNCHANGED <<messages, clock, submitted, inflight, accounts, reports, feedback>>

\* POST of ParentStudentRelationCreateView for a parent the form offers
ParentStudentRelationCreateView(user, parent) ==
    /\ parent \in ParentIds
    /\ IF ~LoggedIn(user)
       THEN /\ resp' = LoginRedirect
            /\ UNCHANGED people
       ELSE /\ people' = [people EXCEPT !.relations = people.relations \cup {parent}]
            /\ resp' = Done("relation_create", user, "relation-list")
    /\ repeat' = FALSE
    /\ UNCHANGED <<messages, clock, submitted, inflight, accounts, reports, feedback>>

\* What a confirmed delete runs.  The views override delete().  Django up to
\* 3.2 calls delete() from post(); from Django 4.0 on post() validates the
\* confirmation form and calls form_valid(), which deletes the object, and
\* delete() is left to requests with the HTTP method DELETE.  The repository
\* pins no Django version.
DeleteDispatch == {"delete", "form_valid"}

\* the collector of Model.delete(): ParentStudentRelation.parent is CASCADE
DeleteParent(pk) ==
    [people EXCEPT !.parents = WithoutRow(people.parents, pk),
                   !.relations = people.relations \ {pk}]
\* self.object.status = 'INACTIVE'; self.object.save()
DeactivateParent(pk) == [people EXCEPT !.parents[pk] = "INACTIVE"]

\* the confirmed delete request of ParentDeleteView
ParentDeleteView(user, pk, calls) ==
    /\ IF ~LoggedIn(user)
       THEN /\ resp' = LoginRedirect
            /\ UNCHANGED people
       ELSE IF pk \notin ParentIds
       THEN /\ resp' = NotFound("parent_delete")
            /\ UNCHANGED people
       ELSE /\ people' = IF calls = "delete" THEN DeactivateParent(pk)
                         ELSE DeleteParent(pk)
            /\ resp' = Done("parent_delete", user, "parent-list")
    /\ repeat' = FALSE
    /\ UNCHANGED <<messages, clock, submitted, inflight, accounts, reports, feedback>>

\* PermissionRequiredMixin: no code grants a permission to an account, so
\* has_perm holds for the active superuser only
HasPerm(user) == accounts[user].is_active /\ accounts[user].is_superuser
Forbidden(op) == ErrorJson(403, op, "PermissionDenied")

\* POST of EmployeeCreateView
EmployeeCreateView(user, status) ==
    /\ IF ~LoggedIn(user)
       THEN /\ resp' = LoginRedirect
            /\ UNCHANGED people
       ELSE IF ~HasPerm(user)
       THEN /\ resp' = Forbidden("employee_create")
            /\ UNCHANGED people
       ELSE /\ people.last_employee < MaxPeople
            /\ people' = [people EXCEPT
                  !.employees = WithRow(people.employees, people.last_employee + 1, status),
                  !.last_employee = people.last_employee + 1]
            /\ resp' = Done("employee_create", user, "employee_list")
    /\ repeat' = FALSE
    /\ UNCHANGED <<messages, clock, submitted, inflight, accounts, reports, feedback>>

\* the confirmed delete request of EmployeeDeleteView
EmployeeDeleteView(user, pk, calls) ==
    /\ IF ~LoggedIn(user)
       THEN /\ resp' = LoginRedirect
            /\ UNCHANGED people
       ELSE IF ~HasPerm(user)
       THEN /\ resp' = Forbidden("employee_delete")
            /\ UNCHANGED people
       ELSE IF pk \notin EmployeeIds
       THEN /\ resp' = NotFound("employee_delete")
            /\ UNCHANGED people
       ELSE /\ people' =
                  IF calls = "delete"
                  THEN [people EXCEPT !.employees[pk] = "DISMISSED"]
                  ELSE [people EXCEPT !.employees = WithoutRow(people.employees, pk)]
            /\ resp' = Done("employee_delete", user, "employee_list")
    /\ repeat' = FALSE
    /\ UNCHANGED <<messages, clock, submitted, inflight, accounts, reports, feedback>>

PeoplePks == 1..(MaxPeople + 1)
DoParentCreateView == \E u \in Callers, st \in ParentStatuses : ParentCreateView(u, st)
DoParentStudentRelationCreateView ==
    \E u \in Callers, pk \in ParentIds : ParentStudentRelationCreateView(u, pk)
DoParentDeleteView ==
    \E u \in Callers, pk \in PeoplePks, calls \in DeleteDispatch :
        ParentDeleteView(u, pk, calls)
DoEmployeeCreateView ==
    \E u \in Callers, st \in EmployeeStatuses : EmployeeCreateView(u, st)
DoEmployeeDeleteView ==
    \E u \in Callers, pk \in PeoplePks, calls \in DeleteDispatch :
        EmployeeDeleteView(u, pk, calls)

NextPeople ==
    \/ DoParentCreateView
    \/ DoParentStudentRelationCreateView
    \/ DoParentDeleteView
    \/ DoEmployeeCreateView
    \/ DoEmployeeDeleteView

SpecPeople == Init /\ [][NextPeople]_vars

\* ---------------------------------------------------------- public.views
MaxFeedback == 2
\* public_id as the INSERT writes it (blank=True, no default)
BlankId == <<>>
\* created_at.year; in this part of the model the clock ticks in years
Year(t) == t
\* f"FB-{self.created_at.year}-{self.pk:06d}"
PublicId(year, pk) == <<"FB", year, pk>>
\* the cleaned data of a FeedbackForm, as far as the views go by it
FeedbackForms == [consent_pd : BOOLEAN, has_file : BOOLEAN]

\* contacts(), POST, up to the first super().save() of Feedback.save(): the
\* INSERT writes public_id = '' under its unique constraint
ContactsInsert(p, form) ==
    /\ inflight[p] = Idle
    /\ IF ~form.consent_pd
       THEN \* clean_consent_pd: the form is shown again with its error
            /\ resp' = [kind |-> "form", status |-> 200, op |-> "contacts"]
            /\ UNCHANGED <<feedback, clock, inflight>>
       ELSE IF \E i \in Ids(feedback) : feedback[i].public_id = BlankId
       THEN /\ resp' = ErrorJson(500, "contacts", "IntegrityError")
            /\ UNCHANGED <<feedback, clock, inflight>>
       ELSE \E now \in Now :
            /\ Len(feedback) < MaxFeedback
            /\ clock' = now
            /\ feedback' = Append(feedback,
                  [pk |-> Len(feedback) + 1, public_id |-> BlankId,
                   has_file |-> form.has_file, status |-> "new", created_at |-> now])
            /\ inflight' = [inflight EXCEPT ![p] =
                  [pc |-> "assign", pk |-> Len(feedback) + 1]]
            /\ UNCHANGED resp
    /\ repeat' = FALSE
    /\ UNCHANGED <<messages, submitted, accounts, reports, people>>

\* the second super().save(update_fields=["public_id"]) and the redirect
ContactsAssign(p) ==
    /\ inflight[p].pc = "assign"
    /\ LET pk == inflight[p].pk
           id == PublicId(Year(feedback[pk].created_at), pk)
       IN  /\ feedback' = [feedback EXCEPT ![pk].public_id = id]
           /\ resp' = [kind |-> "done", status |-> 302, op |-> "contacts",
                       user |-> Anonymous, location |-> <<"contacts_success", id>>]
    /\ inflight' = [inflight EXCEPT ![p] = Idle]
    /\ repeat' = FALSE
    /\ UNCHANGED <<messages, clock, submitted, accounts, reports, people>>

\* _is_staff_role and _is_admin
IsAnyRole(user) == accounts[user].role \in ROLE_CHOICES
IsStaffRole(user) == accounts[user].role \in {"admin", "employee"}
IsAdmin(user) == accounts[user].role = "admin"

\* HttpResponse("...", status=403)
Denied(op, user) == [kind |-> "denied", status |-> 403, op |-> op, user |-> user]
\* Feedback.objects.filter(public_id=public_id)
ByPublicId(public_id) == {i \in Ids(feedback) : feedback[i].public_id = public_id}

\* GET staff/feedback/
StaffFeedbackList(user) ==
    /\ resp' = IF ~LoggedIn(user) THEN LoginRedirect
               ELSE IF ~IsStaffRole(user) THEN Denied("staff_feedback_list", user)
               ELSE [kind |-> "feedback_list", status |-> 200, user |-> user,
                     items |-> {feedback[i] : i \in Ids(feedback)}]
    /\ repeat' = FALSE
    /\ UNCHANGED <<messages, clock, submitted, inflight>>
    /\ UNCHANGED site

\* GET staff/feedback/<public_id>/
StaffFeedbackDetail(user, public_id) ==
    /\ resp' = IF ~LoggedIn(user) THEN LoginRedirect
               ELSE IF ~IsStaffRole(user) THEN Denied("staff_feedback_detail", user)
               ELSE IF ByPublicId(public_id) = {} THEN NotFound("staff_feedback_detail")
               ELSE [kind |-> "feedback_detail", status |-> 200, user |-> user,
                     fb |-> feedback[CHOOSE i \in ByPublicId(public_id) : TRUE]]
    /\ repeat' = FALSE
    /\ UNCHANGED <<messages, clock, submitted, inflight>>
    /\ UNCHANGED site

\* GET staff/feedback/<public_id>/attachment/
StaffFeedbackAttachment(user, public_id) ==
    /\ resp' = IF ~LoggedIn(user) THEN LoginRedirect
               ELSE IF ~IsAdmin(user) THEN Denied("staff_feedback_attachment", user)
               ELSE IF ByPublicId(public_id) = {}
               THEN NotFound("staff_feedback_attachment")
               ELSE IF ~feedback[CHOOSE i \in ByPublicId(public_id) : TRUE].has_file
               THEN NotFound("staff_feedback_attachment")
               ELSE [kind |-> "feedback_attachment", status |-> 200, user |-> user,
                     pk |-> CHOOSE i \in ByPublicId(public_id) : TRUE]
    /\ repeat' = FALSE
    /\ UNCHANGED <<messages, clock, submitted, inflight>>
    /\ UNCHANGED site

\* the public ids a URL may name
PublicIds == {PublicId(y, pk) : y \in 0..MaxClock, pk \in 1..MaxFeedback}
DoContactsInsert == \E p \in Procs, f \in FeedbackForms : ContactsInsert(p, f)
DoContactsAssign == \E p \in Procs : ContactsAssign(p)
DoStaffFeedbackList == \E u \in Callers : StaffFeedbackList(u)
DoStaffFeedbackDetail ==
    \E u \in Callers, id \in PublicIds : StaffFeedbackDetail(u, id)
DoStaffFeedbackAttachment ==
    \E u \in Callers, id \in PublicIds : StaffFeedbackAttachment(u, id)

NextFeedback ==
    \/ DoContactsInsert
    \/ DoContactsAssign
    \/ DoStaffFeedbackList
    \/ DoStaffFeedbackDetail
    \/ DoStaffFeedbackAttachment

SpecFeedback == Init /\ [][NextFeedback]_vars

\* ============================================================== claims
\* what the claims count, written against the table directly
Incoming(store, user, contact) ==
    {i \in Ids(store) : store[i].sender = contact /\ store[i].recipient = user}
Unread(store, user, contact) ==
    Cardinality({i \in Incoming(store, user, contact) : ~store[i].is_read})
Counterparts(store, user) ==
    {c \in Users : \E i \in Ids(store) :
        \/ store[i].sender = c /\ store[i].recipient = user
        \/ store[i].sender = user /\ store[i].recipient = c}
\* the step is a second api_messages(U, C) right after a first one
SecondRetrieval ==
    /\ resp.kind = "thread"
    /\ resp'.kind = "thread"
    /\ resp'.user = resp.user
    /\ resp'.contact = resp.contact
\* s is c without its leading and trailing whitespace
IsTrimOf(s, c) ==
    /\ \E a, b \in 0..Len(c) :
          /\ a + Len(s) + b = Len(c)
          /\ \A k \in 1..a : c[k] \in Whitespace
          /\ \A k \in 1..Len(s) : c[a + k] = s[k]
          /\ \A k \in 1..b : c[a + Len(s) + k] \in Whitespace
    /\ s # <<>> => s[1] \notin Whitespace /\ s[Len(s)] \notin Whitespace

\* C1: in every reachable state every message has read_at null if and only if
\* is_read is false.
C1_ReadAtIffUnread ==
    \A i \in Ids(messages) : (messages[i].read_at = NULL) <=> ~messages[i].is_read

\* C2: the contact list messages_view computes for U holds exactly the users
\* that are sender or recipient of a message involving U, each once.
C2_ContactListExact ==
    resp.kind = "contacts" =>
        LET L == resp.contacts
        IN  /\ \A k1, k2 \in 1..Len(L) : k1 # k2 => L[k1].id # L[k2].id
            /\ {L[k].id : k \in 1..Len(L)} = Counterparts(messages, resp.user)

\* a contact list with a contact on it while a message between other users
\* exists whose parties are not on it
C2_Witness ==
    /\ resp.kind = "contacts"
    /\ Len(resp.contacts) >= 1
    /\ \E i \in Ids(messages) :
          /\ messages[i].sender # resp.user
          /\ messages[i].recipient # resp.user
          /\ \A k \in 1..Len(resp.contacts) :
                resp.contacts[k].id \notin {messages[i].sender, messages[i].recipient}

\* C3: the unread_count reported for contact C is the number of messages with
\* sender C, recipient U and is_read false.
C3_UnreadCountExact ==
    resp.kind = "contacts" =>
        \A k \in 1..Len(resp.contacts) :
            resp.contacts[k].unread_count
                = Unread(messages, resp.user, resp.contacts[k].id)

\* a contact reported with one unread message while an unread message from U
\* to that contact also exists
C3_Witness ==
    /\ resp.kind = "contacts"
    /\ \E k \in 1..Len(resp.contacts) :
          /\ resp.contacts[k].id # resp.user
          /\ resp.contacts[k].unread_count = 1
          /\ \E i \in Ids(messages) :
                /\ messages[i].sender = resp.user
                /\ messages[i].recipient = resp.contacts[k].id
                /\ ~messages[i].is_read

\* C4: under Send and Conversation Retrieval alone the unread count of C for U
\* counts the messages C sent to U since U's last Conversation Retrieval(U, C):
\* an accepted Send from C to U adds one to it and to no other count, a
\* Conversation Retrieval(U, C) sets it to 0 and leaves every other count, no
\* other step changes a message, and Contact Derivation reports the count.
C4_UnreadSinceRetrieval ==
    [][ /\ resp'.kind = "sent" =>
             LET m == messages'[Len(messages')]
             IN  \A u, c \in Users :
                     Unread(messages', u, c) = Unread(messages, u, c)
                         + (IF u = m.recipient /\ c = m.sender THEN 1 ELSE 0)
        /\ resp'.kind = "thread" =>
             \A u, c \in Users :
                 Unread(messages', u, c)
                     = (IF u = resp'.user /\ c = resp'.contact THEN 0
                        ELSE Unread(messages, u, c))
        /\ resp'.kind \in {"contacts", "error"} => messages' = messages
        /\ resp'.kind = "contacts" =>
             \A k \in 1..Len(resp'.contacts) :
                 resp'.contacts[k].unread_count
                     = Unread(messages, resp'.user, resp'.contacts[k].id)
      ]_vars

\* a contact reported with one unread message although it sent two: the other
\* one was retrieved before
C4_Witness ==
    /\ resp.kind = "contacts"
    /\ \E k \in 1..Len(resp.contacts) :
          /\ resp.contacts[k].unread_count = 1
          /\ \E i \in Incoming(messages, resp.user, resp.contacts[k].id) :
                messages[i].is_read

\* C5: Conversation Retrieval(U, C) changes only messages from C to U that
\* were unread, and creates or deletes none.
C5_RetrievalFrame ==
    [][ resp'.kind = "thread" =>
          /\ Len(messages') = Len(messages)
          /\ \A i \in Ids(messages) :
                messages'[i] # messages[i] =>
                    /\ messages[i].sender = resp'.contact
                    /\ messages[i].recipient = resp'.user
                    /\ ~messages[i].is_read
      ]_vars

\* after a retrieval that read an incoming message, an unread message sent by
\* U to C is still unread
C5_Witness ==
    /\ resp.kind = "thread"
    /\ resp.user # resp.contact
    /\ \E i, j \in Ids(messages) :
          /\ messages[i].sender = resp.contact
          /\ messages[i].recipient = resp.user
          /\ messages[i].is_read
          /\ messages[j].sender = resp.user
          /\ messages[j].recipient = resp.contact
          /\ ~messages[j].is_read

\* C6: Conversation Retrieval(U, C) returns exactly the messages between U and
\* C, each once, with the sender and content they are stored with.
C6_ThreadExact ==
    resp.kind = "thread" =>
        LET L == resp.messages
        IN  /\ \A k1, k2 \in 1..Len(L) : k1 # k2 => L[k1].id # L[k2].id
            /\ {L[k].id : k \in 1..Len(L)}
                 = Incoming(messages, resp.user, resp.contact)
                   \cup Incoming(messages, resp.contact, resp.user)
            /\ \A k \in 1..Len(L) :
                  /\ L[k].id \in Ids(messages)
                  /\ L[k].sender_id = messages[L[k].id].sender
                  /\ L[k].content = messages[L[k].id].content

\* a thread of one message returned to U while U has a message with another
\* user as well
C6_Witness ==
    /\ resp.kind = "thread"
    /\ Len(resp.messages) = 1
    /\ \E i \in Ids(messages) :
          /\ resp.user \in {messages[i].sender, messages[i].recipient}
          /\ resp.contact \notin {messages[i].sender, messages[i].recipient}

\* C7: the returned thread is ascending in created_at, and messages with the
\* same created_at are ascending in id.
C7_OrderedWithTieBreak ==
    resp.kind = "thread" =>
        \A k1, k2 \in 1..Len(resp.messages) :
            k1 < k2 =>
                LET a == messages[resp.messages[k1].id]
                    b == messages[resp.messages[k2].id]
                IN  \/ a.created_at < b.created_at
                    \/ a.created_at = b.created_at /\ a.id < b.id

\* C8: a second Conversation Retrieval(U, C) right after the first returns the
\* same messages in the same order with the same field values.
C8_RepeatSameOutput ==
    [][ SecondRetrieval => resp'.messages = resp.messages ]_vars

\* C9: a second Conversation Retrieval(U, C) right after the first changes no
\* message, answers without error, and the unread count of C for U stays 0.
C9_RetrievalIdempotent ==
    [][ SecondRetrieval =>
          /\ messages' = messages
          /\ resp'.status = 200
          /\ Unread(messages, resp.user, resp.contact) = 0
          /\ Unread(messages', resp.user, resp.contact) = 0
      ]_vars

\* the second of two retrievals in a row, of a thread with a message from C
C9_Witness ==
    /\ repeat
    /\ resp.kind = "thread"
    /\ Incoming(messages, resp.user, resp.contact) # {}

\* the sender, recipient and content of a returned message, read off the response
RoundTrip(q, SameContent(_, _)) ==
    \E k \in 1..Len(resp.messages) :
        LET e == resp.messages[k]
            to == IF e.sender_id = resp.user THEN resp.contact ELSE resp.user
        IN  /\ e.sender_id = q.sender
            /\ to = q.recipient
            /\ SameContent(e.content, q.content)
Identical(s, c) == s = c
Between(q, u, c) ==
    \/ q.sender = u /\ q.recipient = c
    \/ q.sender = c /\ q.recipient = u

\* C10 as stated: every accepted Send(S, R, c) is found by a later
\* Conversation Retrieval of S and R with sender S, recipient R and content
\* identical to c.
C10_RoundTripIdentical ==
    resp.kind = "thread" =>
        \A i \in 1..Len(submitted) :
            Between(submitted[i], resp.user, resp.contact)
                => RoundTrip(submitted[i], Identical)

\* C10 as amended: ... with sender S, recipient R and content equal to c
\* without its leading and trailing whitespace.
C10_RoundTripTrimmed ==
    resp.kind = "thread" =>
        \A i \in 1..Len(submitted) :
            Between(submitted[i], resp.user, resp.contact)
                => RoundTrip(submitted[i], IsTrimOf)

\* a retrieved thread with a message that was submitted with surrounding
\* whitespace and one that was not
C10_Witness ==
    /\ resp.kind = "thread"
    /\ Len(resp.messages) = 2
    /\ \E i, j \in 1..Len(submitted) :
          /\ Strip(submitted[i].content) # submitted[i].content
          /\ Strip(submitted[j].content) = submitted[j].content

\* c is empty or whitespace only
Blank(c) == \A k \in 1..Len(c) : c[k] \in Whitespace
SendError == resp.kind = "error" /\ resp.op = "api_send_message"

\* C11: a Send with blank content, without a recipient id or with the id of no
\* user is rejected and leaves the Message table as it was: a send that is
\* answered with an error changes no row, and a row is only ever inserted for
\* a request with a recipient that exists and content that is not blank.
C11_RejectedSendLeavesStore ==
    [][ /\ (resp'.kind = "error" /\ resp'.op = "api_send_message")
              => messages' = messages
        /\ Len(messages') > Len(messages) =>
              /\ Len(messages') = Len(messages) + 1
              /\ \A i \in Ids(messages) : messages'[i] = messages[i]
              /\ submitted'[Len(submitted')].recipient \in Users
              /\ ~Blank(submitted'[Len(submitted')].content)
      ]_vars

\* a send rejected with 400 or 404 while the table holds an unread message
C11_Witness ==
    /\ SendError
    /\ resp.status \in {400, 404}
    /\ \E i \in Ids(messages) : ~messages[i].is_read

\* C12: a failing send is answered 400 (missing or empty field, malformed
\* body) or 404 (unknown recipient), never with a success or a 500.
C12_SendErrorStatus ==
    /\ SendError => resp.status \in {400, 404}
    /\ resp.kind = "sent" =>
          /\ resp.message.id = Len(messages)
          /\ submitted[Len(submitted)].recipient \in Users
          /\ ~Blank(submitted[Len(submitted)].content)

\* C13: the retrieve endpoint answers a missing counterpart with 400 and every
\* counterpart value that names no user with 404; no other error status.
C13_RetrieveErrorStatus ==
    (resp.kind = "error" /\ resp.op = "api_messages") => resp.status \in {400, 404}

\* C20: a request without a session gets the login redirect and nothing else:
\* the redirect changes no row, no contact list or thread is computed for the
\* anonymous caller, and no row is stored for it.
C20_AnonymousGetsRedirect ==
    [][ /\ resp'.kind = "redirect" => messages' = messages
        /\ resp'.kind \in {"contacts", "thread"} => resp'.user # Anonymous
        /\ resp'.kind = "sent" => resp'.message.sender_id # Anonymous
        /\ Len(messages') > Len(messages) =>
              submitted'[Len(submitted')].sender # Anonymous
      ]_vars

\* a login redirect while the table holds an unread message
C20_Witness ==
    /\ resp = LoginRedirect
    /\ \E i \in Ids(messages) : ~messages[i].is_read

\* C15: the stored sender of every message is the authenticated caller of the
\* request that created it, whatever sender the body names.
C15_SenderIsCaller ==
    /\ Len(submitted) = Len(messages)
    /\ \A i \in Ids(messages) :
          /\ submitted[i].sender \in Users
          /\ messages[i].sender = submitted[i].sender

\* two messages of one caller, stored with the same sender, whose bodies named
\* different senders, one of them another user
C15_Witness ==
    \E i, j \in Ids(messages) :
        /\ submitted[i].sender = submitted[j].sender
        /\ submitted[i].sender_id # submitted[j].sender_id
        /\ submitted[i].sender_id \in Users \ {submitted[i].sender}
        /\ messages[i].sender = messages[j].sender

\* the fields of a row that are not its read-state
Fixed(m) ==
    [id |-> m.id, sender |-> m.sender, recipient |-> m.recipient,
     content |-> m.content, created_at |-> m.created_at, updated_at |-> m.updated_at]

\* C16: under Send, Conversation Retrieval and Contact Derivation no row is
\* deleted and every stored row keeps its id, sender, recipient, content and
\* timestamps; a step changes nothing of a stored row but is_read and read_at.
C16_OnlyReadStateChanges ==
    [][ /\ Len(messages') >= Len(messages)
        /\ \A i \in Ids(messages) : Fixed(messages'[i]) = Fixed(messages[i])
      ]_vars

\* a row that a retrieval has marked read, with a row inserted after it
C16_Witness ==
    /\ Len(messages) = MaxMsgs
    /\ messages[1].is_read
    /\ ~messages[MaxMsgs].is_read
    /\ resp.kind = "sent"

\* the step is the INSERT of a send by p, the UPDATE or the SELECT of a
\* retrieval by p
InsertStep(p) == inflight[p].pc = "insert" /\ inflight'[p].pc = "idle"
UpdateStep(p) == inflight[p].pc = "idle" /\ inflight'[p].pc = "select"
SelectStep(p) == inflight[p].pc = "select" /\ inflight'[p].pc = "idle"

\* C14: a successful send appends exactly one row: its id is fresh and greater
\* than every earlier one, its created_at is not earlier than that of any row
\* inserted before it, it is unread with no read_at, and no stored row changes.
C14_SendAppendsInOrder ==
    [][ \A p \in Procs : InsertStep(p) =>
          /\ resp'.kind = "sent"
          /\ Len(messages') = Len(messages) + 1
          /\ \A i \in Ids(messages) :
                /\ messages'[i] = messages[i]
                /\ messages[i].id < messages'[Len(messages')].id
                /\ messages[i].created_at <= messages'[Len(messages')].created_at
          /\ resp'.message.id = messages'[Len(messages')].id
          /\ ~messages'[Len(messages')].is_read
          /\ messages'[Len(messages')].read_at = NULL
      ]_vars

\* C17: two sends that overlap both persist: each INSERT adds one row with
\* the sender, the recipient and the content of its own request and changes
\* no other row, and the ids of the stored rows are distinct.
C17_ConcurrentSendsPersist ==
    [][ \A p \in Procs : InsertStep(p) =>
          /\ Len(messages') = Len(messages) + 1
          /\ messages'[Len(messages')].sender = inflight[p].user
          /\ messages'[Len(messages')].recipient = inflight[p].recipient
          /\ messages'[Len(messages')].content = Strip(inflight[p].body)
          /\ \A i \in Ids(messages) : messages'[i] = messages[i]
          /\ \A i, j \in Ids(messages') :
                i # j => messages'[i].id # messages'[j].id
          /\ \A q \in Procs \ {p} : inflight'[q] = inflight[q]
      ]_vars

\* two rows of different senders to one recipient, stored in the order
\* opposite to the one in which their requests read the clock: the requests
\* overlapped
C17_Witness ==
    /\ Len(messages) = 2
    /\ messages[1].sender # messages[2].sender
    /\ messages[1].recipient = messages[2].recipient
    /\ messages[1].created_at > messages[2].created_at
    /\ inflight = [p \in Procs |-> Idle]

\* C18: retrievals of one thread that overlap complete without error and
\* leave what one retrieval leaves: the UPDATE of each marks every stored
\* message C -> U read and changes no other row and no other field, the
\* SELECT changes nothing and answers with the thread, and no step of
\* another request takes a read mark away.
C18_ConcurrentRetrievals ==
    [][ /\ \A p \in Procs : UpdateStep(p) =>
              /\ Len(messages') = Len(messages)
              /\ \A i \in Ids(messages) :
                    messages'[i] =
                        IF i \in Incoming(messages, inflight'[p].user, inflight'[p].contact)
                        THEN [messages[i] EXCEPT !.is_read = TRUE]
                        ELSE messages[i]
        /\ \A p \in Procs : SelectStep(p) =>
              /\ messages' = messages
              /\ resp'.kind = "thread"
              /\ resp'.status = 200
              /\ resp'.user = inflight[p].user
              /\ resp'.contact = inflight[p].contact
        /\ \A i \in Ids(messages) : messages[i].is_read => messages'[i].is_read
      ]_vars

\* both retrievals of one thread have run their UPDATE and neither its
\* SELECT; the thread's message is read, a message of another sender is not
C18_Witness ==
    /\ \A p \in Procs : inflight[p].pc = "select"
    /\ \A p, q \in Procs : inflight[p] = inflight[q]
    /\ \E i, j \in Ids(messages) :
          /\ i \in Incoming(messages, inflight[1].user, inflight[1].contact)
          /\ messages[i].is_read
          /\ messages[j].recipient = inflight[1].user
          /\ ~messages[j].is_read

AuthorOrAdmin(user, row) ==
    row.employee = user \/ accounts[user].role = "admin" \/ accounts[user].is_staff

\* C21: a report is updated or deleted only by its author or by an
\* administrator: a step of ReportUpdateView or ReportDeleteView that changes
\* or removes a row is a request of the row's employee or of an administrator.
C21_ReportOwnerOnly ==
    [][ \A pk \in ReportIds :
          (pk \notin DOMAIN reports'.rows \/ reports'.rows[pk] # reports.rows[pk])
              => /\ resp'.kind = "done"
                 /\ resp'.op \in {"report_update", "report_delete"}
                 /\ AuthorOrAdmin(resp'.user, reports.rows[pk])
      ]_vars

\* an administrator by role or by staff flag
IsAdministrator(user) == accounts[user].role = "admin" \/ accounts[user].is_staff

\* C22: through UserUpdateView a non-administrator changes only their own
\* record: a step that changes the role or is_active of an account is a
\* request of that account or of an administrator.
C22_OwnRecordOnly ==
    [][ \A u \in Users :
          accounts'[u] # accounts[u]
              => /\ resp'.kind = "done"
                 /\ resp'.op = "user_update"
                 /\ (resp'.user = u \/ IsAdministrator(resp'.user))
      ]_vars

\* C23: the dashboard goes by the role: admin.html with the statistics for
\* an administrator, staff.html for an employee, the parent dashboard for a
\* parent, for the roles that ROLE_CHOICES and create_demo_users assign.
C23_DashboardByRole ==
    resp.kind = "dashboard" =>
        /\ resp.role \in ROLE_CHOICES
        /\ resp.role = "admin" =>
              resp.template = "dashboard/admin.html" /\ resp.statistics
        /\ resp.role = "employee" => resp.template = "dashboard/staff.html"
        /\ resp.role = "parent" => resp.template = "dashboard/parent.html"
        /\ resp.role = "student" => resp.template = "dashboard/parent.html"

\* C24: a confirmed delete of a parent or an employee is a soft delete: the
\* row is still there, with status INACTIVE (parent) or DISMISSED
\* (employee), and no row of any table is removed.
C24_SoftDelete ==
    [][ /\ ParentIds \subseteq DOMAIN people'.parents
        /\ EmployeeIds \subseteq DOMAIN people'.employees
        /\ people.relations \subseteq people'.relations
        /\ (resp'.kind = "done" /\ resp'.op = "parent_delete") =>
              \E pk \in ParentIds :
                  people' = [people EXCEPT !.parents[pk] = "INACTIVE"]
        /\ (resp'.kind = "done" /\ resp'.op = "employee_delete") =>
              \E pk \in EmployeeIds :
                  people' = [people EXCEPT !.employees[pk] = "DISMISSED"]
      ]_vars

\* row i of the store is a message of contact to user
FromTo(store, i, contact, user) ==
    store[i].sender = contact /\ store[i].recipient = user

\* C25: with sends and retrievals interleaved, a message is marked read only
\* by the UPDATE of a retrieval of its recipient for its sender, and the
\* SELECT of a retrieval returns every message of its thread that is marked
\* read: no message is read that the retrieval which marked it does not
\* return.
C25_ReadOnlyIfReturned ==
    [][ /\ \A i \in Ids(messages') :
              ((i \notin Ids(messages) \/ ~messages[i].is_read) /\ messages'[i].is_read)
                  => \E p \in Procs :
                        /\ UpdateStep(p)
                        /\ i \in Ids(messages)
                        /\ FromTo(messages, i, inflight'[p].contact, inflight'[p].user)
        /\ \A p \in Procs : SelectStep(p) =>
              \A i \in Ids(messages) :
                  (messages[i].is_read
                      /\ FromTo(messages, i, inflight[p].contact, inflight[p].user))
                      => \E k \in 1..Len(resp'.messages) : resp'.messages[k].id = i
      ]_vars

\* a thread returned with two messages of the contact, one marked read by
\* the retrieval's UPDATE and one inserted between its UPDATE and its SELECT
C25_Witness ==
    /\ resp.kind = "thread"
    /\ \E k, l \in 1..Len(resp.messages) :
          /\ resp.messages[k].sender_id = resp.contact
          /\ resp.messages[l].sender_id = resp.contact
          /\ resp.contact # resp.user
          /\ resp.messages[k].is_read
          /\ ~resp.messages[l].is_read

\* the messages of user to themselves, and the unread ones among them
SelfMessages(user) == {i \in Ids(messages) : FromTo(messages, i, user, user)}
UnreadSelfMessages(user) == {i \in SelfMessages(user) : ~messages[i].is_read}

\* C26: a send to oneself is stored like any other message; the user is then
\* a contact of their own with the number of their unread self-messages as
\* unread count, and the retrieval of the thread with oneself returns every
\* self-message exactly once and marks it read.
C26_SelfMessages ==
    /\ (resp.kind = "sent" /\ submitted[Len(submitted)].recipient = submitted[Len(submitted)].sender)
          => /\ Len(messages) \in SelfMessages(resp.message.sender_id)
             /\ messages[Len(messages)].content = Strip(submitted[Len(submitted)].content)
             /\ ~messages[Len(messages)].is_read
    /\ (resp.kind = "contacts" /\ SelfMessages(resp.user) # {})
          => \E k \in 1..Len(resp.contacts) :
                /\ resp.contacts[k].id = resp.user
                /\ resp.contacts[k].unread_count = Cardinality(UnreadSelfMessages(resp.user))
                /\ \A l \in 1..Len(resp.contacts) :
                      resp.contacts[l].id = resp.user => l = k
    /\ (resp.kind = "thread" /\ resp.contact = resp.user)
          => /\ Len(resp.messages) = Cardinality(SelfMessages(resp.user))
             /\ \A i \in SelfMessages(resp.user) :
                   /\ messages[i].is_read
                   /\ Cardinality({k \in 1..Len(resp.messages) : resp.messages[k].id = i}) = 1

\* the thread with oneself, retrieved with two self-messages in it
C26_Witness ==
    /\ resp.kind = "thread"
    /\ resp.contact = resp.user
    /\ Cardinality(SelfMessages(resp.user)) = 2
    /\ Len(resp.messages) = 2

\* C27: MessageDetailView marks a message read for its recipient only: when
\* the viewer is the recipient and the message is unread, is_read becomes
\* true and read_at the current time, and no other row changes; for any other
\* viewer, or for a message already read, the table stays as it is.
C27_DetailMarksForRecipient ==
    [][ resp'.kind = "detail" =>
          LET pk == resp'.message.id
          IN  IF messages[pk].recipient = resp'.user /\ ~messages[pk].is_read
              THEN /\ messages'[pk].is_read
                   /\ messages'[pk].read_at = <<clock'>>
                   /\ clock' >= clock
                   /\ Fixed(messages'[pk]) =
                         [Fixed(messages[pk]) EXCEPT !.updated_at = clock']
                   /\ Len(messages') = Len(messages)
                   /\ \A i \in Ids(messages) \ {pk} : messages'[i] = messages[i]
              ELSE messages' = messages
      ]_vars

\* a message opened by someone who is not its recipient and left unread,
\* while another message has been read by its recipient
C27_Witness ==
    /\ resp.kind = "detail"
    /\ resp.user # messages[resp.message.id].recipient
    /\ ~messages[resp.message.id].is_read
    /\ messages[resp.message.id].read_at = NULL
    /\ \E i \in Ids(messages) : messages[i].is_read /\ messages[i].read_at # NULL

\* the ids of the messages whose content the response shows
ShownIds ==
    IF resp.kind = "detail" THEN {resp.message.id}
    ELSE IF resp.kind \in {"thread", "list"}
    THEN {resp.messages[k].id : k \in 1..Len(resp.messages)}
    ELSE IF resp.kind = "dashboard"
    THEN {resp.recent_messages[k].id : k \in 1..Len(resp.recent_messages)}
    ELSE {}

\* C28: a messaging view shows a user the content of a message only if the
\* user is the sender or the recipient of the message.
C28_OnlyOwnMessages ==
    resp.kind \in {"detail", "thread", "list", "dashboard"} =>
        \A i \in ShownIds :
            messages[i].sender = resp.user \/ messages[i].recipient = resp.user

\* the staff views of the feedback
StaffOps == {"staff_feedback_list", "staff_feedback_detail", "staff_feedback_attachment"}

\* C29: the feedback list and detail go to the roles admin and employee
\* only, the attachment to the role admin only; a logged-in user of another
\* role gets 403 and only such a user gets it; none of the three views
\* changes a feedback row.  (A step that leaves inflight alone is a step of
\* one of these views or a submission that was turned away.)
C29_FeedbackAccess ==
    [][ inflight' = inflight =>
          /\ resp'.kind \in {"feedback_list", "feedback_detail"}
                => /\ accounts[resp'.user].role \in {"admin", "employee"}
                   /\ feedback' = feedback
          /\ resp'.kind = "feedback_attachment"
                => /\ accounts[resp'.user].role = "admin"
                   /\ feedback[resp'.pk].has_file
                   /\ feedback' = feedback
          /\ resp'.kind = "denied"
                => /\ resp'.status = 403
                   /\ resp'.op \in StaffOps
                   /\ feedback' = feedback
                   /\ IF resp'.op = "staff_feedback_attachment"
                      THEN accounts[resp'.user].role # "admin"
                      ELSE accounts[resp'.user].role \notin {"admin", "employee"}
      ]_vars

\* the attachment of a stored feedback handed to the administrator, after
\* the employee was refused it
C29_Witness ==
    /\ resp.kind = "feedback_attachment"
    /\ accounts[resp.user].role = "admin"
    /\ Len(feedback) = MaxFeedback

\* C30: every accepted submission is stored with a public id FB-<year>-<pk>
\* that no other row has and that never changes, also when two submissions
\* overlap: no submission with consent fails, and once a submission is done
\* its row has its public id.
C30_PublicIdAssigned ==
    [][ /\ ~(resp'.kind = "error" /\ resp'.op = "contacts")
        /\ \A i \in Ids(feedback) :
              /\ i \in Ids(feedback')
              /\ feedback[i].public_id # BlankId
                    => feedback'[i].public_id = feedback[i].public_id
        /\ \A i \in Ids(feedback') :
              feedback'[i].public_id \in
                  {BlankId, PublicId(Year(feedback'[i].created_at), i)}
        /\ \A p \in Procs :
              (inflight[p].pc = "assign" /\ inflight'[p].pc = "idle")
                  => feedback'[inflight[p].pk].public_id # BlankId
      ]_vars


====
